---- MODULE Spec2Model ----
(***************************************************************************)
(* Model of the ESP-IDF log hook of loggable-espidf                        *)
(* (src/src/loggable_espidf.cpp): the install/uninstall lifecycle of       *)
(* LogHook, the vprintf_hook entry point with its reentrancy flag and      *)
(* per-thread line buffer, and the pure function cleanup_message.          *)
(*                                                                         *)
(* Text is a sequence of one-character tokens; NL stands for '\n' and ESC  *)
(* for '\033'.                                                             *)
(***************************************************************************)
EXTENDS Integers, Sequences, FiniteSets, TLC

\* ------------------------------------------------------------------------
\* Bounds of the model and constants of the program

\* Execution contexts (tasks) that log and call install/uninstall.
Ctx == {1, 2}

\* Total number of log calls (top level and nested) made in one behaviour.
MaxEmit == 3

\* Longest text given to cleanup_message in the specification SpecNorm.
MaxNormLen == 6

\* sizeof(static_buf) in vprintf_hook.
StaticBufSize == 256

NL == "NL"
ESC == "ESC"

\* The callbacks the platform's print hook can hold.
PlatformDefault == "platform_default"
HookEntryPoint == "vprintf_hook"
NullPtr == "nullptr"

\* The value of last_ret before any hook invocation has returned.
NoReturn == -1

\* LogLevel.
LevelError == "Error"
LevelWarning == "Warning"
LevelInfo == "Info"
LevelDebug == "Debug"
LevelVerbose == "Verbose"

\* A LogMessage's timestamp: std::chrono::system_clock::now() at the call
\* (CaptureTime), or the time point ms milliseconds after the epoch, ms being
\* a decimal numeral without leading zeros.
CaptureTime == [boot |-> FALSE, ms |-> <<>>]
BootTime(ms) == [boot |-> TRUE, ms |-> ms]

\* The value of prec before Sinker::dispatch has been given a record.
NoRecord ==
    [level |-> "none", timestamp |-> CaptureTime, tag |-> <<>>,
     payload |-> <<>>, reads |-> {}, thrown |-> FALSE]

\* A null SemaphoreHandle or TaskHandle; the task that calls the backend.
NullHandle == 0
CallerTask == 1

\* A backend call as os_ret records it: the operation, the handle it was
\* given, the handle it returned and its (or the native call's) success.
OsCall(op, arg, handle, ok) ==
    [op |-> op, arg |-> arg, handle |-> handle, ok |-> ok]
NoCall == OsCall("none", NullHandle, NullHandle, FALSE)

\* The ordinary character context t writes: each context writes its own, so
\* that a byte of another context is recognisable in a line.
CharOf(t) == IF t = 1 THEN "a" ELSE "b"

\* A log call's format expansion: the text it expands to, or a failure
\* (vsnprintf returning a negative size).
Expansion(text) == [text |-> text, fail |-> FALSE]
FormatFailure == [text |-> <<>>, fail |-> TRUE]

\* The expansions context t feeds to the hook in the specification SpecFeed:
\* a fragment without a terminator, one that ends with the terminator, one
\* with the terminator at its start and text following, a bare terminator, and
\* a failing expansion.
FeedInputs(t) ==
    { Expansion(<<CharOf(t)>>), Expansion(<<CharOf(t), NL>>),
      Expansion(<<NL, CharOf(t)>>), Expansion(<<NL>>), FormatFailure }

\* The expansions context t logs in the specification Spec (the lifecycle).
LifeInputs(t) == { Expansion(<<CharOf(t), NL>>) }

VARIABLES
    esp_vprintf,            \* the platform's active print callback
    original_vprintf,       \* the saved previous callback
    _installed,             \* LogHook::_installed
    _call_original_vprintf, \* the pass-through setting
    hook_mutex,             \* 0, or the context that holds hook_mutex
    swap_ret,               \* value returned by esp_log_set_vprintf, not yet stored
    sinker_up,              \* Sinker: init() done and shutdown() not yet
    backend_set,            \* os::set_backend has registered the backend
    lpc,                    \* per context: position inside install/uninstall
    noop_install,           \* history: some install() found the hook installed
    c3target,               \* build variant: CONFIG_IDF_TARGET_ESP32C3
    is_logging,             \* the reentrancy flag(s)
    log_buffer,             \* per context: ThreadBufferState::log_buffer
    stack,                  \* per context: active vprintf_hook invocations
    last_ret,               \* per context: value the last hook invocation returned
    emit_left,              \* log calls still to be made
    fed,                    \* per context: fragments given to top-level hook calls
    produced,               \* per context: complete messages moved out of the buffer
    dispatched,             \* per context: messages passed to the sink
    nx, ny, nz, nstage,     \* SpecNorm: a text, its normalisations, the stage
    pline, prec, pstage,    \* SpecParse: a normalised line, the record, the stage
    os_sems, os_given,      \* SpecOs: the live semaphores, those that are given
    os_tasks,               \* SpecOs: the live tasks
    os_ret, os_waited       \* SpecOs: the last backend call; whether it blocked

vars == << esp_vprintf, original_vprintf, _installed, _call_original_vprintf,
           hook_mutex, swap_ret, sinker_up, backend_set, lpc, noop_install,
           c3target, is_logging, log_buffer, stack, last_ret, emit_left, fed, produced,
           dispatched, nx, ny, nz, nstage, pline, prec, pstage, os_sems,
           os_given, os_tasks, os_ret, os_waited >>

lifeVars == << esp_vprintf, original_vprintf, _installed,
               _call_original_vprintf, hook_mutex, swap_ret, sinker_up,
               backend_set, lpc, noop_install >>
hookVars == << is_logging, log_buffer, stack, last_ret, emit_left, fed,
               produced, dispatched >>
normVars == << nx, ny, nz, nstage >>
parseVars == << pline, prec, pstage >>
osVars == << os_sems, os_given, os_tasks, os_ret, os_waited >>
\* The variables of the specifications of the pure functions and of the OS
\* backend, which the hook and the lifecycle leave alone.
sideVars == << normVars, parseVars, osVars >>

\* ------------------------------------------------------------------------
\* Text helpers (std::string operations)

Last(s) == s[Len(s)]

RECURSIVE Concat(_)
Concat(ss) == IF ss = <<>> THEN <<>> ELSE Head(ss) \o Concat(Tail(ss))

Contains(s, c) == \E i \in 1..Len(s) : s[i] = c

\* std::string::find(c, from): the first index >= from holding c, 0 for npos.
\* Indices are 1-based.
RECURSIVE FindChar(_, _, _)
FindChar(s, c, from) ==
    IF from > Len(s) THEN 0
    ELSE IF s[from] = c THEN from
    ELSE FindChar(s, c, from + 1)

\* std::string::find("\033[", from).
RECURSIVE FindEscStart(_, _)
FindEscStart(s, from) ==
    IF from + 1 > Len(s) THEN 0
    ELSE IF s[from] = ESC /\ s[from + 1] = "[" THEN from
    ELSE FindEscStart(s, from + 1)

\* std::string::erase(pos, n) with the span first..last.
Erase(s, first, last) == SubSeq(s, 1, first - 1) \o SubSeq(s, last + 1, Len(s))

\* std::string::rfind(c): the last index holding c, 0 for npos.
RECURSIVE FindLastChar(_, _, _)
FindLastChar(s, c, from) ==
    IF from < 1 THEN 0
    ELSE IF s[from] = c THEN from
    ELSE FindLastChar(s, c, from - 1)

\* StripEscapes that erases up to the last 'm' of the text (a greedy match).
RECURSIVE StripEscapes_Greedy(_, _)
StripEscapes_Greedy(message, start_pos) ==
    LET s == FindEscStart(message, start_pos) IN
    IF s = 0 THEN message
    ELSE LET e == FindLastChar(message, "m", Len(message)) IN
         IF e < s THEN message
         ELSE StripEscapes_Greedy(Erase(message, s, e), s)

\* The loop of cleanup_message: erase each ESC '[' ... 'm' run, scanning on
\* from the place of the erased run; stop at an escape start with no 'm'.
RECURSIVE StripEscapes(_, _)
StripEscapes(message, start_pos) ==
    LET s == FindEscStart(message, start_pos) IN
    IF s = 0 THEN message
    ELSE LET e == FindChar(message, "m", s) IN
         IF e = 0 THEN message
         ELSE StripEscapes(Erase(message, s, e), s)

\* The tail of cleanup_message: pop one trailing '\n'.
StripOneNewline(message) ==
    IF message # <<>> /\ Last(message) = NL
    THEN SubSeq(message, 1, Len(message) - 1)
    ELSE message

cleanup_message(message) == StripOneNewline(StripEscapes(message, 1))

\* ------------------------------------------------------------------------
\* Initial states

HookIdle ==
    /\ is_logging = [t \in Ctx |-> FALSE]
    /\ log_buffer = [t \in Ctx |-> <<>>]
    /\ stack = [t \in Ctx |-> <<>>]
    /\ last_ret = [t \in Ctx |-> NoReturn]
    /\ emit_left = MaxEmit
    /\ fed = [t \in Ctx |-> <<>>]
    /\ produced = [t \in Ctx |-> <<>>]
    /\ dispatched = [t \in Ctx |-> <<>>]

NormIdle == nx = <<>> /\ ny = <<>> /\ nz = <<>> /\ nstage = 0

\* No line has been given to the parser.
ParseIdle == pline = <<>> /\ prec = NoRecord /\ pstage = 0

\* The OS before any backend call: no semaphore, only the calling task.
OsIdle ==
    /\ os_sems = {} /\ os_given = {}
    /\ os_tasks = {CallerTask}
    /\ os_ret = NoCall /\ os_waited = FALSE

\* The program after static initialisation: nothing installed.
Init ==
    /\ esp_vprintf = PlatformDefault
    /\ original_vprintf = NullPtr
    /\ _installed = FALSE
    /\ _call_original_vprintf = TRUE
    /\ hook_mutex = 0
    /\ swap_ret = NullPtr
    /\ sinker_up = FALSE
    /\ backend_set = FALSE
    /\ lpc = [t \in Ctx |-> "idle"]
    /\ noop_install = FALSE
    /\ c3target \in BOOLEAN
    /\ HookIdle
    /\ NormIdle /\ ParseIdle /\ OsIdle

\* The program after one completed install(flag), for either flag.
InitFeed ==
    /\ esp_vprintf = HookEntryPoint
    /\ original_vprintf = PlatformDefault
    /\ _installed = TRUE
    /\ _call_original_vprintf \in BOOLEAN
    /\ hook_mutex = 0
    /\ swap_ret = NullPtr
    /\ sinker_up = TRUE
    /\ backend_set = TRUE
    /\ lpc = [t \in Ctx |-> "idle"]
    /\ noop_install = FALSE
    /\ c3target \in BOOLEAN
    /\ HookIdle
    /\ NormIdle /\ ParseIdle /\ OsIdle

\* ------------------------------------------------------------------------
\* LogHook::install and LogHook::uninstall

\* std::lock_guard on hook_mutex, then the unconditional write of the
\* pass-through setting (line 177).
InstallBegin(t, flag) ==
    /\ lpc[t] = "idle" /\ stack[t] = <<>>
    /\ hook_mutex = 0
    /\ hook_mutex' = t
    /\ _call_original_vprintf' = flag
    /\ lpc' = [lpc EXCEPT ![t] = "i_check"]
    /\ UNCHANGED << esp_vprintf, original_vprintf, _installed, swap_ret,
                    sinker_up, backend_set, c3target >>
    /\ UNCHANGED noop_install
    /\ UNCHANGED hookVars /\ UNCHANGED sideVars

\* InstallCheck without the test of _installed: every install() swaps.
InstallCheck_NoTest(t) ==
    /\ lpc[t] = "i_check"
    /\ backend_set' = TRUE
    /\ sinker_up' = TRUE
    /\ lpc' = [lpc EXCEPT ![t] = "i_swap"]
    /\ UNCHANGED << esp_vprintf, original_vprintf, _installed,
                    _call_original_vprintf, hook_mutex, swap_ret, c3target >>
    /\ UNCHANGED noop_install
    /\ UNCHANGED hookVars /\ UNCHANGED sideVars

\* if (!_installed.load()): register the backend and initialise the sink;
\* otherwise return, releasing the lock.
InstallCheck(t) ==
    /\ lpc[t] = "i_check"
    /\ IF _installed
       THEN /\ hook_mutex' = 0
            /\ lpc' = [lpc EXCEPT ![t] = "idle"]
            /\ noop_install' = TRUE
            /\ UNCHANGED << sinker_up, backend_set >>
       ELSE /\ backend_set' = TRUE
            /\ sinker_up' = TRUE
            /\ lpc' = [lpc EXCEPT ![t] = "i_swap"]
            /\ UNCHANGED << hook_mutex, noop_install >>
    /\ UNCHANGED << esp_vprintf, original_vprintf, _installed,
                    _call_original_vprintf, swap_ret, c3target >>
    /\ UNCHANGED hookVars /\ UNCHANGED sideVars

\* esp_log_set_vprintf(&vprintf_hook): the platform swaps its callback and
\* returns the previous one.
InstallSwap(t) ==
    /\ lpc[t] = "i_swap"
    /\ swap_ret' = esp_vprintf
    /\ esp_vprintf' = HookEntryPoint
    /\ lpc' = [lpc EXCEPT ![t] = "i_save"]
    /\ UNCHANGED << original_vprintf, _installed, _call_original_vprintf,
                    hook_mutex, sinker_up, backend_set, c3target >>
    /\ UNCHANGED noop_install
    /\ UNCHANGED hookVars /\ UNCHANGED sideVars

\* original_vprintf = <the returned callback>.
InstallSave(t) ==
    /\ lpc[t] = "i_save"
    /\ original_vprintf' = swap_ret
    /\ swap_ret' = NullPtr
    /\ lpc' = [lpc EXCEPT ![t] = "i_store"]
    /\ UNCHANGED << esp_vprintf, _installed, _call_original_vprintf,
                    hook_mutex, sinker_up, backend_set, c3target >>
    /\ UNCHANGED noop_install
    /\ UNCHANGED hookVars /\ UNCHANGED sideVars

\* _installed.store(true), then the lock is released.
InstallStore(t) ==
    /\ lpc[t] = "i_store"
    /\ _installed' = TRUE
    /\ hook_mutex' = 0
    /\ lpc' = [lpc EXCEPT ![t] = "idle"]
    /\ UNCHANGED << esp_vprintf, original_vprintf, _call_original_vprintf,
                    swap_ret, sinker_up, backend_set, c3target >>
    /\ UNCHANGED noop_install
    /\ UNCHANGED hookVars /\ UNCHANGED sideVars

\* std::lock_guard on hook_mutex and if (_installed.load()); when not
\* installed the call returns at once.
UninstallBegin(t) ==
    /\ lpc[t] = "idle" /\ stack[t] = <<>>
    /\ hook_mutex = 0
    /\ IF _installed
       THEN /\ hook_mutex' = t
            /\ lpc' = [lpc EXCEPT ![t] = "u_restore"]
       ELSE UNCHANGED << hook_mutex, lpc >>
    /\ UNCHANGED << esp_vprintf, original_vprintf, _installed,
                    _call_original_vprintf, swap_ret, sinker_up, backend_set,
                    c3target >>
    /\ UNCHANGED noop_install
    /\ UNCHANGED hookVars /\ UNCHANGED sideVars

\* esp_log_set_vprintf(original_vprintf).
UninstallRestore(t) ==
    /\ lpc[t] = "u_restore"
    /\ esp_vprintf' = original_vprintf
    /\ lpc' = [lpc EXCEPT ![t] = "u_clear"]
    /\ UNCHANGED << original_vprintf, _installed, _call_original_vprintf,
                    hook_mutex, swap_ret, sinker_up, backend_set, c3target >>
    /\ UNCHANGED noop_install
    /\ UNCHANGED hookVars /\ UNCHANGED sideVars

\* original_vprintf = nullptr.
UninstallClear(t) ==
    /\ lpc[t] = "u_clear"
    /\ original_vprintf' = NullPtr
    /\ lpc' = [lpc EXCEPT ![t] = "u_store"]
    /\ UNCHANGED << esp_vprintf, _installed, _call_original_vprintf,
                    hook_mutex, swap_ret, sinker_up, backend_set, c3target >>
    /\ UNCHANGED noop_install
    /\ UNCHANGED hookVars /\ UNCHANGED sideVars

\* _installed.store(false).
UninstallStore(t) ==
    /\ lpc[t] = "u_store"
    /\ _installed' = FALSE
    /\ lpc' = [lpc EXCEPT ![t] = "u_shutdown"]
    /\ UNCHANGED << esp_vprintf, original_vprintf, _call_original_vprintf,
                    hook_mutex, swap_ret, sinker_up, backend_set, c3target >>
    /\ UNCHANGED noop_install
    /\ UNCHANGED hookVars /\ UNCHANGED sideVars

\* Sinker::instance().shutdown(), then the lock is released.
UninstallShutdown(t) ==
    /\ lpc[t] = "u_shutdown"
    /\ sinker_up' = FALSE
    /\ hook_mutex' = 0
    /\ lpc' = [lpc EXCEPT ![t] = "idle"]
    /\ UNCHANGED << esp_vprintf, original_vprintf, _installed,
                    _call_original_vprintf, swap_ret, backend_set, c3target >>
    /\ UNCHANGED noop_install
    /\ UNCHANGED hookVars /\ UNCHANGED sideVars

\* LogHook::is_installed(): the atomic load.
is_installed == _installed

\* ------------------------------------------------------------------------
\* vprintf_hook

\* The storage of is_logging that context t uses: one flag per thread
\* (thread_local), or the single static flag of the ESP32-C3 build.
Flag(t) == IF c3target THEN 1 ELSE t

Top(t) == stack[t][Len(stack[t])]
SetTopPc(t, pc) == [stack EXCEPT ![t][Len(stack[t])].pc = pc]
Pop(t) == [stack EXCEPT ![t] = SubSeq(@, 1, Len(@) - 1)]

\* The platform's logging call on context t: it invokes the active print
\* callback. The hook starts a new invocation on t; the platform's own
\* handler prints and returns. A top-level call's text is recorded in fed.
PlatformLog(t, in, toplevel) ==
    /\ emit_left > 0
    /\ emit_left' = emit_left - 1
    /\ IF esp_vprintf = HookEntryPoint
       THEN /\ stack' = [stack EXCEPT ![t] = Append(@, [pc |-> "entry", in |-> in])]
            /\ fed' = IF toplevel /\ ~in.fail
                      THEN [fed EXCEPT ![t] = Append(@, in.text)]
                      ELSE fed
       ELSE UNCHANGED << stack, fed >>
    /\ UNCHANGED << is_logging, log_buffer, last_ret, produced, dispatched >>
    /\ UNCHANGED lifeVars /\ UNCHANGED c3target /\ UNCHANGED sideVars

\* Context t, outside any hook invocation and any lifecycle call, logs.
Emit(t, in) ==
    /\ lpc[t] = "idle" /\ stack[t] = <<>>
    /\ PlatformLog(t, in, TRUE)

\* The original handler, called by the hook on t (line 114), logs.
EmitInOriginal(t, in) ==
    /\ stack[t] # <<>> /\ Top(t).pc = "orig"
    /\ PlatformLog(t, in, FALSE)

\* The sink's dispatch, called by the hook on t (line 107), logs.
EmitInDispatch(t, in) ==
    /\ stack[t] # <<>> /\ Top(t).pc = "dispatch"
    /\ PlatformLog(t, in, FALSE)

\* if (original_vprintf && _call_original_vprintf) (line 111).
CallsOriginal == original_vprintf # NullPtr /\ _call_original_vprintf

\* Lines 111-116: the pass-through call is made, or skipped.
HookEntry(t) ==
    /\ stack[t] # <<>> /\ Top(t).pc = "entry"
    /\ stack' = SetTopPc(t, IF CallsOriginal THEN "orig" ELSE "check")
    /\ UNCHANGED << is_logging, log_buffer, last_ret, emit_left, fed,
                    produced, dispatched >>
    /\ UNCHANGED lifeVars /\ UNCHANGED c3target /\ UNCHANGED sideVars

\* original_vprintf(format, args_copy) returns.
OriginalReturn(t) ==
    /\ stack[t] # <<>> /\ Top(t).pc = "orig"
    /\ stack' = SetTopPc(t, "check")
    /\ UNCHANGED << is_logging, log_buffer, last_ret, emit_left, fed,
                    produced, dispatched >>
    /\ UNCHANGED lifeVars /\ UNCHANGED c3target /\ UNCHANGED sideVars

\* GuardBlocks with the test of the flag left out.
GuardBlocks_Never(t) == FALSE

\* if (is_logging) (line 124), as context t reads it.
GuardBlocks(t) == is_logging[Flag(t)]

\* Lines 124-126: return 0 when the flag is set. No LoggingGuard exists yet,
\* so the flag is left as it is.
GuardCheck(t) ==
    /\ stack[t] # <<>> /\ Top(t).pc = "check"
    /\ IF GuardBlocks(t)
       THEN /\ stack' = Pop(t)
            /\ last_ret' = [last_ret EXCEPT ![t] = 0]
       ELSE /\ stack' = SetTopPc(t, "set")
            /\ UNCHANGED last_ret
    /\ UNCHANGED << is_logging, log_buffer, emit_left, fed, produced,
                    dispatched >>
    /\ UNCHANGED lifeVars /\ UNCHANGED c3target /\ UNCHANGED sideVars

\* is_logging = true and the LoggingGuard is constructed (lines 127-131).
GuardSet(t) ==
    /\ stack[t] # <<>> /\ Top(t).pc = "set"
    /\ is_logging' = [is_logging EXCEPT ![Flag(t)] = TRUE]
    /\ stack' = SetTopPc(t, "format")
    /\ UNCHANGED << log_buffer, last_ret, emit_left, fed, produced,
                    dispatched >>
    /\ UNCHANGED lifeVars /\ UNCHANGED c3target /\ UNCHANGED sideVars

\* std::vsnprintf's return value: the full length of the expansion, or a
\* negative value on failure.
FormatSize(in) == IF in.fail THEN -1 ELSE Len(in.text)

\* formatted_message_view (lines 133-152): the static buffer's first size
\* characters, or the re-expansion into dynamic_message when the size does not
\* fit the static buffer.
FormattedMessage(in) ==
    LET size == FormatSize(in) IN
    IF size >= StaticBufSize
    THEN in.text
    ELSE SubSeq(in.text, 1, size)

\* AppendFragment with an assignment in place of the append.
AppendFragment_Assign(buffer, view) == view

\* log_buffer.append(formatted_message_view) (line 156).
AppendFragment(buffer, view) == buffer \o view

\* !log_buffer.empty() && log_buffer.back() == '\n' (line 158).
LineComplete(buffer) == buffer # <<>> /\ Last(buffer) = NL

\* ShouldDispatch that lets only a message of more than one character through.
ShouldDispatch_Long(message) == Len(message) > 1

\* if (!complete_message.empty()) (line 164).
ShouldDispatch(message) == message # <<>>

\* GuardedReturn without the LoggingGuard destructor: the flag stays set.
GuardedReturn_NoReset(t, val) ==
    /\ stack' = Pop(t)
    /\ UNCHANGED is_logging
    /\ last_ret' = [last_ret EXCEPT ![t] = val]

\* The exit of a hook invocation that holds the LoggingGuard: the destructor
\* clears the flag and the invocation returns val.
GuardedReturn(t, val) ==
    /\ stack' = Pop(t)
    /\ is_logging' = [is_logging EXCEPT ![Flag(t)] = FALSE]
    /\ last_ret' = [last_ret EXCEPT ![t] = val]

\* Lines 133-168 up to the call of the sink: expand, append to the thread's
\* buffer, and on a complete line move it out, clear the buffer, normalise it
\* and hand it to dispatch_to_sinker when it is not empty.
Format(t) ==
    /\ stack[t] # <<>> /\ Top(t).pc = "format"
    /\ LET in == Top(t).in
           size == FormatSize(in)
           appended == AppendFragment(log_buffer[t], FormattedMessage(in))
           message == cleanup_message(appended)
       IN
       IF size < 0
       THEN /\ GuardedReturn(t, 0)
            /\ UNCHANGED << log_buffer, produced, dispatched >>
       ELSE IF LineComplete(appended)
       THEN /\ log_buffer' = [log_buffer EXCEPT ![t] = <<>>]
            /\ produced' = [produced EXCEPT ![t] = Append(@, appended)]
            /\ IF ShouldDispatch(message)
               THEN /\ dispatched' = [dispatched EXCEPT ![t] = Append(@, message)]
                    /\ stack' = SetTopPc(t, "dispatch")
                    /\ UNCHANGED << is_logging, last_ret >>
               ELSE /\ GuardedReturn(t, size)
                    /\ UNCHANGED dispatched
       ELSE /\ log_buffer' = [log_buffer EXCEPT ![t] = appended]
            /\ GuardedReturn(t, size)
            /\ UNCHANGED << produced, dispatched >>
    /\ UNCHANGED << emit_left, fed >>
    /\ UNCHANGED lifeVars /\ UNCHANGED c3target /\ UNCHANGED sideVars

\* Sinker::dispatch returns; the hook returns size (line 168).
DispatchReturn(t) ==
    /\ stack[t] # <<>> /\ Top(t).pc = "dispatch"
    /\ GuardedReturn(t, FormatSize(Top(t).in))
    /\ UNCHANGED << log_buffer, emit_left, fed, produced, dispatched >>
    /\ UNCHANGED lifeVars /\ UNCHANGED c3target /\ UNCHANGED sideVars

\* One step of an active hook invocation on t.
HookStep(t) ==
    \/ HookEntry(t)
    \/ OriginalReturn(t)
    \/ GuardCheck(t)
    \/ GuardSet(t)
    \/ Format(t)
    \/ DispatchReturn(t)

\* ------------------------------------------------------------------------
\* Specifications

\* The whole program: lifecycle calls and logging from both contexts, with an
\* original handler that may itself log.
Next ==
    \E t \in Ctx :
        \/ \E flag \in BOOLEAN : InstallBegin(t, flag)
        \/ InstallCheck(t)
        \/ InstallSwap(t)
        \/ InstallSave(t)
        \/ InstallStore(t)
        \/ UninstallBegin(t)
        \/ UninstallRestore(t)
        \/ UninstallClear(t)
        \/ UninstallStore(t)
        \/ UninstallShutdown(t)
        \/ \E in \in LifeInputs(t) : Emit(t, in)
        \/ \E in \in LifeInputs(t) : EmitInOriginal(t, in)
        \/ \E in \in LifeInputs(t) : EmitInDispatch(t, in)
        \/ HookStep(t)

Spec == Init /\ [][Next]_vars

\* The installed hook fed with fragments by both contexts; the original
\* handler only prints.
NextFeed ==
    \E t \in Ctx :
        \/ \E in \in FeedInputs(t) : Emit(t, in)
        \/ \E in \in FeedInputs(t) : EmitInDispatch(t, in)
        \/ HookStep(t)

SpecFeed == InitFeed /\ [][NextFeed]_vars

\* cleanup_message applied to a text, and again to its result.
NormAlphabet == {ESC, "[", "m", NL, "a"}
NormTexts == UNION { [1..k -> NormAlphabet] : k \in 0..MaxNormLen }

InitNorm ==
    /\ esp_vprintf = PlatformDefault
    /\ original_vprintf = NullPtr
    /\ _installed = FALSE
    /\ _call_original_vprintf = TRUE
    /\ hook_mutex = 0
    /\ swap_ret = NullPtr
    /\ sinker_up = FALSE
    /\ backend_set = FALSE
    /\ lpc = [t \in Ctx |-> "idle"]
    /\ noop_install = FALSE
    /\ c3target = FALSE
    /\ HookIdle
    /\ nx \in NormTexts /\ ny = <<>> /\ nz = <<>> /\ nstage = 0
    /\ ParseIdle /\ OsIdle

Normalize ==
    /\ nstage = 0
    /\ ny' = cleanup_message(nx)
    /\ nstage' = 1
    /\ UNCHANGED << nx, nz >>
    /\ UNCHANGED lifeVars /\ UNCHANGED c3target /\ UNCHANGED hookVars
    /\ UNCHANGED parseVars /\ UNCHANGED osVars

NormalizeAgain ==
    /\ nstage = 1
    /\ nz' = cleanup_message(ny)
    /\ nstage' = 2
    /\ UNCHANGED << nx, ny >>
    /\ UNCHANGED lifeVars /\ UNCHANGED c3target /\ UNCHANGED hookVars
    /\ UNCHANGED parseVars /\ UNCHANGED osVars

NextNorm == Normalize \/ NormalizeAgain

SpecNorm == InitNorm /\ [][NextNorm]_vars

\* ------------------------------------------------------------------------
\* dispatch_to_sinker: the parser of a normalised line. Positions are 0-based
\* as in the code; Npos stands for std::string_view::npos.

Npos == -1

\* The numeric value of ':' that line 72 compares a position with.
ColonCode == 58

\* message[i], for i inside the text.
At(message, i) == message[i + 1]

\* message.find(c, from): npos when from is npos (beyond the text).
Find0(message, c, from) ==
    IF from = Npos THEN Npos ELSE FindChar(message, c, from + 1) - 1

\* message.substr(pos, n) and message.substr(pos), for pos <= length.
Substr(message, pos, n) == SubSeq(message, pos + 1, pos + n)
SubstrFrom(message, pos) == SubSeq(message, pos + 1, Len(message))

Digits == <<"0", "1", "2", "3", "4", "5", "6", "7", "8", "9">>
IsDigit(c) == \E i \in 1..10 : Digits[i] = c
DigitVal(c) == (CHOOSE i \in 1..10 : Digits[i] = c) - 1

\* The longest prefix of str made of decimal digits.
RECURSIVE DigitPrefix(_)
DigitPrefix(str) ==
    IF str # <<>> /\ IsDigit(Head(str))
    THEN <<Head(str)>> \o DigitPrefix(Tail(str))
    ELSE <<>>

\* A numeral without its leading zeros ("0" for zero).
RECURSIVE Canonical(_)
Canonical(num) ==
    IF Len(num) > 1 /\ Head(num) = "0" THEN Canonical(Tail(num)) ELSE num

\* a <= b for numerals of the same length without leading zeros.
RECURSIVE NumeralLeq(_, _)
NumeralLeq(a, b) ==
    IF a = <<>> THEN TRUE
    ELSE IF DigitVal(Head(a)) < DigitVal(Head(b)) THEN TRUE
    ELSE IF DigitVal(Head(a)) > DigitVal(Head(b)) THEN FALSE
    ELSE NumeralLeq(Tail(a), Tail(b))

\* ULONG_MAX of the 32-bit targets of ESP-IDF, as a numeral.
UlongMax == <<"4", "2", "9", "4", "9", "6", "7", "2", "9", "5">>

FitsUnsignedLong(num) ==
    \/ Len(num) < Len(UlongMax)
    \/ Len(num) = Len(UlongMax) /\ NumeralLeq(num, UlongMax)

\* std::from_chars(first, last, unsigned long&): it converts the leading run
\* of digits and stops at the first other character; it fails when there is no
\* leading digit (no sign is accepted) or the value does not fit.
FromChars(str) ==
    LET run == Canonical(DigitPrefix(str)) IN
    IF run = <<>> THEN [ok |-> FALSE, value |-> <<>>]
    ELSE IF ~FitsUnsignedLong(run) THEN [ok |-> FALSE, value |-> <<>>]
    ELSE [ok |-> TRUE, value |-> run]

\* The severity prefix test of line 59.
IsLevelChar(c) == c \in {"E", "W", "I", "D", "V"}
HasLevelPrefix(message) ==
    Len(message) > 4 /\ At(message, 1) = " " /\ IsLevelChar(At(message, 0))

\* The switch of lines 60-67.
LevelOf(c) ==
    CASE c = "E" -> LevelError
      [] c = "W" -> LevelWarning
      [] c = "I" -> LevelInfo
      [] c = "D" -> LevelDebug
      [] c = "V" -> LevelVerbose

\* message_start after lines 71-72: the first ':' from time_end on, searched
\* again from the next position when the position plus one equals ColonCode.
MessageStart(message, time_end) ==
    LET first == Find0(message, ":", time_end) IN
    IF first + 1 = ColonCode THEN Find0(message, ":", first + 1) ELSE first

\* What a read through operator[] at the position one past the end can do:
\* it is undefined for std::string_view; the view lies over a std::string, so
\* the read yields the terminating NUL, or the library's bounds assertion
\* aborts the program when the build enables it.
OobOutcomes == {"NUL", "abort"}

\* The character operator[] yields at position i.
CharRead(message, i, oob) ==
    IF i < Len(message) THEN At(message, i) ELSE oob

\* dispatch_to_sinker(message) for a non-empty message: the LogMessage given
\* to Sinker::dispatch, with the positions read through operator[] (reads) and
\* whether the program stopped before the dispatch (thrown). oob is the
\* outcome of a read one past the end.
dispatch_to_sinker(message, oob) ==
    LET len == Len(message)
        fallback == [level |-> LevelInfo, timestamp |-> CaptureTime,
                     tag |-> <<>>, payload |-> message,
                     reads |-> IF len > 4
                               THEN (IF At(message, 1) = " " THEN {0, 1} ELSE {1})
                               ELSE {},
                     thrown |-> FALSE]
    IN
    IF ~HasLevelPrefix(message) THEN fallback
    ELSE
    LET level == LevelOf(At(message, 0))
        time_start == Find0(message, "(", 0)
        time_end == Find0(message, ")", time_start)
        message_start == MessageStart(message, time_end)
    IN
    IF ~(time_end # Npos /\ message_start # Npos /\ time_end + 1 < len)
    THEN [fallback EXCEPT !.level = level]
    ELSE
    LET parsed == IF time_start # Npos /\ time_end > time_start + 1
                  THEN FromChars(Substr(message, time_start + 1,
                                        time_end - (time_start + 1)))
                  ELSE [ok |-> FALSE, value |-> <<>>]
        timestamp == IF parsed.ok THEN BootTime(parsed.value) ELSE CaptureTime
        tag_text_start == time_end + 2
        tag == IF At(message, time_end + 1) = " " /\ tag_text_start < message_start
               THEN Substr(message, tag_text_start, message_start - tag_text_start)
               ELSE <<>>
        skip == CharRead(message, message_start + 1, oob) = " "
        payload_pos == IF skip THEN message_start + 2 ELSE message_start + 1
    IN
    [level |-> level, timestamp |-> timestamp, tag |-> tag,
     payload |-> IF payload_pos > len THEN <<>> ELSE SubstrFrom(message, payload_pos),
     reads |-> {0, 1, time_end + 1, message_start + 1},
     thrown |-> (message_start + 1 >= len /\ oob = "abort") \/ payload_pos > len]

\* ------------------------------------------------------------------------
\* The parser applied to complete messages (lines 162-165): SpecParse draws a
\* complete message, normalises it and gives it to dispatch_to_sinker.

\* Tags of the grammar lines are up to MaxTagLen characters long; lines over
\* ShortAlphabet are enumerated up to MaxLineLen characters.
MaxTagLen == 64
MaxLineLen == 6

\* The two well-formed lines and the malformed line the documentation names.
LineExample ==
    <<"I", " ", "(", "1", "2", "3", "4", "5", ")", " ", "M", "Y", "T", "A", "G", ":", " ", "h", "e", "l", "l", "o", " ", "w", "o", "r", "l", "d">>
LineEmptyTag ==
    <<"E", " ", "(", "5", ")", " ", ":", " ", "o", "o", "p", "s">>
LineMalformed ==
    <<"n", "o", "t", " ", "a", " ", "l", "o", "g", " ", "l", "i", "n", "e", " ", "a", "t", " ", "a", "l", "l">>
\* Lines that stop early: right after the tag's ':', after ": ", after ')'.
LineEndsAtColon == <<"E", " ", "(", "5", ")", " ", "T", "A", "G", ":">>
LineEndsAfterSpace == <<"E", " ", "(", "5", ")", " ", "T", "A", "G", ":", " ">>
LineEndsAtParen == <<"E", " ", "(", "5", ")">>
LineNoParen == <<"W", " ", "n", "o", " ", "p", "a", "r", "e", "n", "s">>
\* Lines whose time span is not a plain numeral that fits unsigned long.
LineDigitsThenText ==
    <<"E", " ", "(", "1", "2", "a", "b", ")", " ", "T", ":", " ", "x">>
LineEmptySpan == <<"E", " ", "(", ")", " ", "T", ":", " ", "x">>
LineTextSpan == <<"D", " ", "(", "a", "b", ")", " ", "T", ":", " ", "x">>
LineSignedSpan == <<"V", " ", "(", "-", "5", ")", " ", "T", ":", " ", "x">>
LineLeadingZeros ==
    <<"I", " ", "(", "0", "0", "7", ")", " ", "T", ":", " ", "x">>
LineUlongMax ==
    <<"I", " ", "(", "4", "2", "9", "4", "9", "6", "7", "2", "9", "5", ")", " ", "T", ":", " ", "x">>
LineOverUlongMax ==
    <<"I", " ", "(", "4", "2", "9", "4", "9", "6", "7", "2", "9", "6", ")", " ", "T", ":", " ", "x">>
LineLongSpan ==
    <<"I", " ", "(", "9", "9", "9", "9", "9", "9", "9", "9", "9", "9", "9", ")", " ", "T", ":", " ", "x">>

EdgeLines ==
    {LineExample, LineEmptyTag, LineMalformed, LineEndsAtColon,
     LineEndsAfterSpace, LineEndsAtParen, LineNoParen, LineDigitsThenText,
     LineEmptySpan, LineTextSpan, LineSignedSpan, LineLeadingZeros,
     LineUlongMax, LineOverUlongMax, LineLongSpan}

\* The line "<L> (<T>) <TAG>: <P>".
GrammarLine(L, T, TAG, P) ==
    <<L, " ", "(">> \o T \o <<")", " ">> \o TAG \o <<":", " ">> \o P

GrammarLevels == {"E", "W", "I", "D", "V"}
GrammarTimes == {<<"5">>, <<"0">>, <<"1", "2", "3", "4", "5">>}
GrammarTags == { [i \in 1..k |-> "t"] : k \in 0..MaxTagLen }
GrammarPayloads == {<<"o", "o", "p", "s">>, <<"h", "i", " ", "y", "o", "u">>}

GrammarLines ==
    { GrammarLine(L, T, TAG, P) :
        L \in GrammarLevels, T \in GrammarTimes,
        TAG \in GrammarTags, P \in GrammarPayloads }

ShortAlphabet == {"E", " ", "(", ")", ":", "a"}
ShortLines == UNION { [1..k -> ShortAlphabet] : k \in 0..MaxLineLen }

\* A complete message ends with the terminator that made it complete.
ParseInputs == { l \o <<NL>> : l \in EdgeLines \cup GrammarLines \cup ShortLines }

InitParse ==
    /\ esp_vprintf = PlatformDefault
    /\ original_vprintf = NullPtr
    /\ _installed = FALSE
    /\ _call_original_vprintf = TRUE
    /\ hook_mutex = 0
    /\ swap_ret = NullPtr
    /\ sinker_up = FALSE
    /\ backend_set = FALSE
    /\ lpc = [t \in Ctx |-> "idle"]
    /\ noop_install = FALSE
    /\ c3target = FALSE
    /\ HookIdle
    /\ NormIdle
    /\ pline \in ParseInputs /\ prec = NoRecord /\ pstage = 0
    /\ OsIdle

\* Lines 162-165 for the complete message pline: normalise, and dispatch the
\* line unless it is empty.
DispatchLine(oob) ==
    /\ pstage = 0
    /\ LET complete_message == cleanup_message(pline) IN
       prec' = IF complete_message # <<>>
               THEN dispatch_to_sinker(complete_message, oob)
               ELSE NoRecord
    /\ pstage' = 1
    /\ UNCHANGED pline
    /\ UNCHANGED lifeVars /\ UNCHANGED c3target /\ UNCHANGED hookVars
    /\ UNCHANGED normVars /\ UNCHANGED osVars

NextParse == \E oob \in OobOutcomes : DispatchLine(oob)

SpecParse == InitParse /\ [][NextParse]_vars

\* ------------------------------------------------------------------------
\* FreeRTOSBackend (loggable_os_freertos.cpp): the backend's operations over
\* the OS objects they act on. Live semaphores and tasks are numbered; the
\* calling task makes every call and makes none once it is deleted.

\* At most MaxSems semaphores and MaxTasks created tasks exist at a time.
MaxSems == 2
MaxTasks == 2

SemIds == 1..MaxSems
TaskIds == (CallerTask + 1)..(CallerTask + MaxTasks)

\* timeout_ms of semaphore_take: 0, a finite time, WAIT_FOREVER.
TimeoutInputs == {"none", "finite", "forever"}

InitOs ==
    /\ esp_vprintf = PlatformDefault
    /\ original_vprintf = NullPtr
    /\ _installed = FALSE
    /\ _call_original_vprintf = TRUE
    /\ hook_mutex = 0
    /\ swap_ret = NullPtr
    /\ sinker_up = FALSE
    /\ backend_set = FALSE
    /\ lpc = [t \in Ctx |-> "idle"]
    /\ noop_install = FALSE
    /\ c3target = FALSE
    /\ HookIdle
    /\ NormIdle
    /\ ParseIdle
    /\ OsIdle

CallerRuns == CallerTask \in os_tasks

OsOthersUnchanged ==
    /\ UNCHANGED lifeVars /\ UNCHANGED c3target /\ UNCHANGED hookVars
    /\ UNCHANGED normVars /\ UNCHANGED parseVars

\* xSemaphoreCreateBinary(): a new, empty semaphore, or NULL when the
\* allocation fails.
semaphore_create_binary(h) ==
    /\ CallerRuns
    /\ h \in (SemIds \ os_sems) \cup {NullHandle}
    /\ os_sems' = IF h # NullHandle THEN os_sems \cup {h} ELSE os_sems
    /\ os_ret' = OsCall("semaphore_create_binary", NullHandle, h, h # NullHandle)
    /\ os_waited' = FALSE
    /\ UNCHANGED << os_given, os_tasks >>
    /\ OsOthersUnchanged

\* semaphore_destroy(sem): vSemaphoreDelete for a non-null handle.
semaphore_destroy(sem) ==
    /\ CallerRuns
    /\ sem \in os_sems \cup {NullHandle}
    /\ IF sem # NullHandle
       THEN /\ os_sems' = os_sems \ {sem}
            /\ os_given' = os_given \ {sem}
       ELSE UNCHANGED << os_sems, os_given >>
    /\ os_ret' = OsCall("semaphore_destroy", sem, NullHandle, TRUE)
    /\ os_waited' = FALSE
    /\ UNCHANGED os_tasks
    /\ OsOthersUnchanged

\* semaphore_give(sem): xSemaphoreGive for a non-null handle.
semaphore_give(sem) ==
    /\ CallerRuns
    /\ sem \in os_sems \cup {NullHandle}
    /\ os_given' = IF sem # NullHandle THEN os_given \cup {sem} ELSE os_given
    /\ os_ret' = OsCall("semaphore_give", sem, NullHandle, TRUE)
    /\ os_waited' = FALSE
    /\ UNCHANGED << os_sems, os_tasks >>
    /\ OsOthersUnchanged

\* semaphore_take(sem, timeout_ms): false for a null handle; otherwise
\* xSemaphoreTake, which takes an available semaphore at once and else blocks
\* for the timeout (without end for WAIT_FOREVER, nobody else giving).
semaphore_take(sem, timeout_ms) ==
    /\ CallerRuns
    /\ sem \in os_sems \cup {NullHandle}
    /\ IF sem = NullHandle
       THEN /\ os_ret' = OsCall("semaphore_take", sem, NullHandle, FALSE)
            /\ os_waited' = FALSE
            /\ UNCHANGED os_given
       ELSE IF sem \in os_given
       THEN /\ os_given' = os_given \ {sem}
            /\ os_ret' = OsCall("semaphore_take", sem, NullHandle, TRUE)
            /\ os_waited' = FALSE
       ELSE /\ timeout_ms # "forever"
            /\ os_ret' = OsCall("semaphore_take", sem, NullHandle, FALSE)
            /\ os_waited' = (timeout_ms = "finite")
            /\ UNCHANGED os_given
    /\ UNCHANGED << os_sems, os_tasks >>
    /\ OsOthersUnchanged

\* task_create(config, fn, arg): xTaskCreatePinnedToCore or xTaskCreate; the
\* handle is returned only when the native call reports pdPASS (h not null).
task_create(pinned, h) ==
    /\ CallerRuns
    /\ h \in (TaskIds \ os_tasks) \cup {NullHandle}
    /\ os_tasks' = IF h # NullHandle THEN os_tasks \cup {h} ELSE os_tasks
    /\ os_ret' = OsCall(IF pinned THEN "task_create_pinned" ELSE "task_create",
                        NullHandle, h, h # NullHandle)
    /\ os_waited' = FALSE
    /\ UNCHANGED << os_sems, os_given >>
    /\ OsOthersUnchanged

\* vTaskDelete(xTaskToDelete): a NULL handle deletes the calling task.
TaskToDelete(task) == IF task = NullHandle THEN CallerTask ELSE task

\* task_delete(task): vTaskDelete on the handle as given.
task_delete(task) ==
    /\ CallerRuns
    /\ task \in os_tasks \cup {NullHandle}
    /\ os_tasks' = os_tasks \ {TaskToDelete(task)}
    /\ os_ret' = OsCall("task_delete", task, NullHandle, TRUE)
    /\ os_waited' = FALSE
    /\ UNCHANGED << os_sems, os_given >>
    /\ OsOthersUnchanged

\* delay_ms(ms): vTaskDelay blocks the calling task for the time.
delay_ms ==
    /\ CallerRuns
    /\ os_ret' = OsCall("delay_ms", NullHandle, NullHandle, TRUE)
    /\ os_waited' = TRUE
    /\ UNCHANGED << os_sems, os_given, os_tasks >>
    /\ OsOthersUnchanged

NextOs ==
    \/ \E h \in SemIds \cup {NullHandle} : semaphore_create_binary(h)
    \/ \E sem \in SemIds \cup {NullHandle} : semaphore_destroy(sem)
    \/ \E sem \in SemIds \cup {NullHandle} : semaphore_give(sem)
    \/ \E sem \in SemIds \cup {NullHandle}, timeout_ms \in TimeoutInputs :
          semaphore_take(sem, timeout_ms)
    \/ \E pinned \in BOOLEAN, h \in TaskIds \cup {NullHandle} : task_create(pinned, h)
    \/ \E task \in TaskIds \cup {CallerTask, NullHandle} : task_delete(task)
    \/ delay_ms

SpecOs == InitOs /\ [][NextOs]_vars

\* ------------------------------------------------------------------------
\* Properties

Quiescent(t) == stack[t] = <<>>
TerminatorFree(f) == ~Contains(f, NL)

\* No install() or uninstall() is in progress.
LifecycleIdle == hook_mutex = 0 /\ \A t \in Ctx : lpc[t] = "idle"

\* C1: whenever no lifecycle call is in progress and the hook is uninstalled,
\* the platform's active callback is the one that was active before the first
\* install(); and the hook's own entry point is never the saved original.
C1_OriginalRestored ==
    /\ original_vprintf # HookEntryPoint
    /\ swap_ret # HookEntryPoint
    /\ (LifecycleIdle /\ ~_installed) => esp_vprintf = PlatformDefault

\* C1 witness: an install(), a second install() that found the hook installed
\* and an uninstall() have completed (the sink is shut down again) and the
\* callback is restored.
C1_Witness ==
    /\ LifecycleIdle /\ ~_installed /\ backend_set /\ ~sinker_up
    /\ noop_install
    /\ esp_vprintf = PlatformDefault /\ original_vprintf = NullPtr

\* C2: a call of install(flag) that starts while the hook is installed changes
\* none of the saved original, the active callback, the installed flag, the
\* sink state and the pass-through setting.
C2_InstallWhileInstalledNoOp ==
    [][(_installed /\ \E t \in Ctx : \E flag \in BOOLEAN : InstallBegin(t, flag))
         => UNCHANGED << original_vprintf, esp_vprintf, _installed, sinker_up,
                         _call_original_vprintf >>]_vars

\* C3: in every state, installed implies the saved original is non-null.
C3_InstalledImpliesOriginal == _installed => original_vprintf # NullPtr

\* The top hook invocation on t is a nested one that has not yet got past the
\* reentrancy check.
NestedBeforeCheck(t) ==
    Len(stack[t]) >= 2 /\ Top(t).pc \in {"entry", "orig", "check"}

C5_GuardCoversPassThrough ==
    \A t \in Ctx : \A i \in 2..Len(stack[t]) :
        stack[t][i - 1].pc = "orig" => stack[t][i].pc \in {"entry", "check"}

\* The log calls made so far are exactly the successful top-level calls of
\* context t: t is the one context feeding the hook.
OnlyFeeder(t) == emit_left = MaxEmit - Len(fed[t])

\* C6: when context t alone has fed terminator-free fragments, no line has been
\* produced and the buffer holds their concatenation; once one more fragment
\* that ends with the terminator has been processed, exactly one line has been
\* produced, the concatenation of all the fragments, it has been dispatched
\* (normalised) if it is not empty, and the buffer is empty.
C6_Reassembly ==
    \A t \in Ctx :
        (OnlyFeeder(t) /\ fed[t] # <<>>
           /\ \A i \in 1..(Len(fed[t]) - 1) : TerminatorFree(fed[t][i]))
        => LET all == Concat(fed[t])
               before == Concat(SubSeq(fed[t], 1, Len(fed[t]) - 1))
               final == Last(fed[t])
           IN /\ TerminatorFree(final) =>
                    /\ produced[t] = <<>> /\ dispatched[t] = <<>>
                    /\ Quiescent(t) => log_buffer[t] = all
              /\ LineComplete(final) =>
                    IF Quiescent(t)
                    THEN /\ produced[t] = <<all>>
                         /\ log_buffer[t] = <<>>
                         /\ dispatched[t] = IF cleanup_message(all) # <<>>
                                            THEN <<cleanup_message(all)>>
                                            ELSE <<>>
                    ELSE produced[t] \in {<<>>, <<all>>}
                         /\ (produced[t] = <<>> => log_buffer[t] = before)

\* C6 witness: two terminator-free fragments and a final terminated one have
\* been fed on one context and the one line has been produced.
C6_Witness ==
    \E t \in Ctx :
        /\ OnlyFeeder(t) /\ Quiescent(t) /\ Len(fed[t]) = 3
        /\ TerminatorFree(fed[t][1]) /\ TerminatorFree(fed[t][2])
        /\ LineComplete(fed[t][3])
        /\ produced[t] = << Concat(fed[t]) >>
        /\ log_buffer[t] = <<>>

\* C7: after every hook invocation has returned, the context's buffer holds no
\* line terminator.
C7_NoTerminatorAtRest ==
    \A t \in Ctx : Quiescent(t) => TerminatorFree(log_buffer[t])

\* C8: when no hook invocation is active, for each context the lines produced
\* from it followed by its buffer are exactly the fragments it fed, in order,
\* in either build variant of the reentrancy flag.
C8_PerContextReassembly ==
    (\A t \in Ctx : Quiescent(t))
      => \A t \in Ctx : Concat(produced[t]) \o log_buffer[t] = Concat(fed[t])

\* The messages dispatch_to_sinker is given for a sequence of completed
\* messages: each one normalised, the empty ones left out, in order.
RECURSIVE DispatchesOf(_)
DispatchesOf(lines) ==
    IF lines = <<>> THEN <<>>
    ELSE LET m == cleanup_message(Head(lines)) IN
         (IF m # <<>> THEN <<m>> ELSE <<>>) \o DispatchesOf(Tail(lines))

\* C9: for each context, the records passed to the sink are the completed
\* non-empty lines of that context, each once, in the order their terminators
\* were seen, and each is passed before the invocation that completed it
\* returns (so also at every moment an invocation is still active).
C9_DispatchOrder ==
    \A t \in Ctx : dispatched[t] = DispatchesOf(produced[t])

\* C9 witness: a context has completed two different non-empty lines and both
\* were dispatched, in the order they were completed.
C9_Witness ==
    \E t \in Ctx :
        /\ Quiescent(t)
        /\ Len(produced[t]) = 2
        /\ Len(dispatched[t]) = 2
        /\ dispatched[t][1] # dispatched[t][2]
        /\ dispatched[t][1] = cleanup_message(produced[t][1])

\* C10: normalising a normalised text changes nothing.
C10_NormalizeIdempotent == nstage = 2 => nz = ny

\* A text read as plain segments (no ESC) interleaved with escape runs (ESC '['
\* up to the first 'm'), possibly ending with an escape start that has no later
\* 'm': ok says the text has that form, plain is the concatenation of its plain
\* segments, tail is the unterminated escape start with all that follows it.
RECURSIVE Segments(_)
Segments(x) ==
    IF x = <<>> THEN [ok |-> TRUE, plain |-> <<>>, tail |-> <<>>]
    ELSE IF x[1] # ESC
    THEN LET r == Segments(Tail(x)) IN
         [ok |-> r.ok, plain |-> <<x[1]>> \o r.plain, tail |-> r.tail]
    ELSE IF Len(x) >= 2 /\ x[2] = "["
    THEN LET e == FindChar(x, "m", 3) IN
         IF e = 0 THEN [ok |-> TRUE, plain |-> <<>>, tail |-> x]
         ELSE Segments(SubSeq(x, e + 1, Len(x)))
    ELSE [ok |-> FALSE, plain |-> <<>>, tail |-> <<>>]

\* C11 as stated: for a text of plain segments and escape runs the result is
\* the plain segments with one trailing terminator removed; an escape start
\* with no later 'm' and everything after it are left unchanged.
C11_NormalizeSegments ==
    (nstage >= 1 /\ Segments(nx).ok)
      => ny = IF Segments(nx).tail = <<>>
              THEN StripOneNewline(Segments(nx).plain)
              ELSE Segments(nx).plain \o Segments(nx).tail

\* C11 amended: the result is the plain segments followed by the unterminated
\* escape start and all that follows it, if there is one, and then one trailing
\* terminator is removed from the whole.
C11_NormalizeSegmentsThenStrip ==
    (nstage >= 1 /\ Segments(nx).ok)
      => ny = StripOneNewline(Segments(nx).plain \o Segments(nx).tail)

\* C11 witness: two plain characters around one escape run have been
\* normalised to the two characters.
C11_Witness ==
    /\ nstage >= 1
    /\ nx = <<ESC, "[", "a", "m", "a", NL>>
    /\ ny = <<"a">>

\* ---- the parser (SpecParse) ----

\* The normalised line the parser was given, and whether a record reached
\* Sinker::dispatch.
ParsedLine == cleanup_message(pline)
RecordDispatched == pstage = 1 /\ prec # NoRecord /\ ~prec.thrown

IsNumeral(text) == text # <<>> /\ \A i \in 1..Len(text) : IsDigit(text[i])
FreeOf(text, chars) == \A i \in 1..Len(text) : text[i] \notin chars

\* The documented grammar "<L> (<T>) <TAG>: <P>" read off a line: the position
\* of ')' and of the first ':' after it, and the four parts.
ClosingOf(line) == FindChar(line, ")", 1)
ColonOf(line) == FindChar(line, ":", ClosingOf(line))
TimeOf(line) == SubSeq(line, 4, ClosingOf(line) - 1)
TagOf(line) == SubSeq(line, ClosingOf(line) + 2, ColonOf(line) - 1)
PayloadOf(line) == SubSeq(line, ColonOf(line) + 2, Len(line))

IsGrammarLine(line) ==
    /\ Len(line) >= 3
    /\ line[1] \in GrammarLevels /\ line[2] = " " /\ line[3] = "("
    /\ ClosingOf(line) > 4
    /\ IsNumeral(TimeOf(line)) /\ FitsUnsignedLong(Canonical(TimeOf(line)))
    /\ Len(line) > ClosingOf(line) /\ line[ClosingOf(line) + 1] = " "
    /\ ColonOf(line) > ClosingOf(line) + 1
    /\ FreeOf(TagOf(line), {":", "(", ")"})
    /\ Len(line) > ColonOf(line) /\ line[ColonOf(line) + 1] = " "
    /\ FreeOf(PayloadOf(line), {":"})

\* C12: every line "<L> (<T>) <TAG>: <P>" (T a numeral that fits, TAG without
\* ':', '(' or ')', of any length up to MaxTagLen, P without ':') is parsed to
\* the level of L, boot-epoch + T ms, tag TAG and payload P.
C12_GrammarLinesParse ==
    (pstage = 1 /\ IsGrammarLine(ParsedLine)) =>
        /\ RecordDispatched
        /\ prec.level = LevelOf(ParsedLine[1])
        /\ prec.timestamp = BootTime(Canonical(TimeOf(ParsedLine)))
        /\ prec.tag = TagOf(ParsedLine)
        /\ prec.payload = PayloadOf(ParsedLine)

\* The ways the claim names in which a line fails the grammar.
PrefixRecognised(line) ==
    Len(line) > 4 /\ line[2] = " " /\ line[1] \in GrammarLevels

OpeningOf(line) == FindChar(line, "(", 1)
ClosingAfterOpening(line) ==
    IF OpeningOf(line) = 0 THEN 0 ELSE FindChar(line, ")", OpeningOf(line))

ParenthesesFail(line) ==
    \/ OpeningOf(line) = 0
    \/ ClosingAfterOpening(line) = 0
    \/ ClosingAfterOpening(line) = Len(line)

FailsGrammar(line) ==
    ~PrefixRecognised(line) \/ ParenthesesFail(line)

\* C13: a non-empty line whose severity prefix is not recognised, or whose
\* prefix is recognised but whose '(' or ')' is absent or is followed by
\* nothing, is dispatched as the full fallback record: level Info, empty tag,
\* the whole line as payload, the capture time as timestamp.
C13_FullFallback ==
    (pstage = 1 /\ ParsedLine # <<>> /\ FailsGrammar(ParsedLine)) =>
        /\ RecordDispatched
        /\ prec.level = LevelInfo
        /\ prec.timestamp = CaptureTime
        /\ prec.tag = <<>>
        /\ prec.payload = ParsedLine

\* C14: every position the parser reads through operator[] lies inside the
\* line, for every non-empty line.
C14_ReadsInBounds ==
    (pstage = 1 /\ ParsedLine # <<>>) =>
        \A i \in prec.reads : 0 <= i /\ i <= Len(ParsedLine) - 1

\* C15: every record given to Sinker::dispatch has a non-empty payload.
C15_PayloadNotEmpty ==
    RecordDispatched => prec.payload # <<>>

\* A line whose structure parses: the prefix is recognised, '(' and the ')'
\* after it are present, something follows the ')' and a ':' follows it.
StructureParses(line) ==
    /\ PrefixRecognised(line)
    /\ ~ParenthesesFail(line)
    /\ FindChar(line, ":", ClosingAfterOpening(line)) # 0

\* The text strictly between '(' and ')'.
TimeSpan(line) == SubSeq(line, OpeningOf(line) + 1, ClosingAfterOpening(line) - 1)

\* C17: in a line whose structure parses the timestamp is boot-epoch + N ms
\* exactly when the whole text between '(' and ')' is a numeral N that fits
\* unsigned long, and is the capture time for every other span; the level is
\* parsed in both cases.
C17_TimestampWholeSpan ==
    (pstage = 1 /\ StructureParses(ParsedLine) /\ ~prec.thrown) =>
        /\ prec.timestamp =
              IF /\ IsNumeral(TimeSpan(ParsedLine))
                 /\ FitsUnsignedLong(Canonical(TimeSpan(ParsedLine)))
              THEN BootTime(Canonical(TimeSpan(ParsedLine)))
              ELSE CaptureTime
        /\ prec.level = LevelOf(ParsedLine[1])

\* ---- format failure (SpecFeed) ----

\* Context t's invocation is at the expansion and the expansion fails.
FailingAtFormat(t) ==
    stack[t] # <<>> /\ Top(t).pc = "format" /\ Top(t).in.fail

\* C16: the step of an invocation whose expansion fails returns 0, leaves the
\* context's buffer, the produced lines and the dispatched records as they
\* were and leaves the reentrancy flag false; and with per-context flags a
\* context outside every invocation never has its flag set, so its next
\* invocation is processed.
C16_FormatFailureDrops ==
    /\ [][\A t \in Ctx :
            (FailingAtFormat(t) /\ stack'[t] # stack[t]) =>
                /\ stack'[t] = SubSeq(stack[t], 1, Len(stack[t]) - 1)
                /\ last_ret'[t] = 0
                /\ log_buffer' = log_buffer
                /\ produced' = produced
                /\ dispatched' = dispatched
                /\ ~is_logging'[Flag(t)]]_vars
    /\ [](\A t \in Ctx : (~c3target /\ Quiescent(t)) => ~is_logging[t])

\* Context t fed a fragment without terminator, then an expansion that failed:
\* the invocation returned 0 and the fragment is still in the buffer.
C16_Witness ==
    \E t \in Ctx :
        /\ emit_left = MaxEmit - 2
        /\ fed[t] = << <<CharOf(t)>> >>
        /\ \A u \in Ctx \ {t} : fed[u] = <<>> /\ log_buffer[u] = <<>>
        /\ Quiescent(t) /\ last_ret[t] = 0
        /\ log_buffer[t] = <<CharOf(t)>>
        /\ produced[t] = <<>> /\ dispatched[t] = <<>>
        /\ ~is_logging[Flag(t)]

\* ---- the hook during install() and uninstall() (Spec) ----

\* Context t's invocation is at line 111 and takes its step.
EntryStep(t) ==
    stack[t] # <<>> /\ Top(t).pc = "entry" /\ stack'[t] # stack[t]

\* Some context is at the write of the saved callback (line 181 or 193).
SavedCallbackWritePending ==
    \E u \in Ctx : lpc[u] \in {"i_save", "u_clear"}

\* C18: while pass-through is enabled every hook invocation calls the
\* original callback, also when it overlaps an install() or uninstall() on
\* another context; and no invocation is at its read of the saved callback
\* while a lifecycle call is at its write of it.
C18_PassThroughAlways ==
    /\ [][\A t \in Ctx :
            (EntryStep(t) /\ _call_original_vprintf) =>
                stack'[t][Len(stack'[t])].pc = "orig"]_vars
    /\ [](\A t \in Ctx :
            (stack[t] # <<>> /\ Top(t).pc = "entry") => ~SavedCallbackWritePending)

\* C19: Sinker::dispatch is only called while the sink is initialised and not
\* shut down, and the hook is the active callback only while it is.
C19_DispatchWhileSinkUp ==
    /\ [][dispatched' # dispatched => sinker_up]_vars
    /\ [](esp_vprintf = HookEntryPoint => sinker_up)

\* ---- the FreeRTOS backend (SpecOs) ----

NullHandleOps ==
    {"semaphore_destroy", "semaphore_give", "semaphore_take", "task_delete"}

\* The step is a backend call of NullHandleOps given a null handle.
NullHandleCall == os_ret'.op \in NullHandleOps /\ os_ret'.arg = NullHandle

\* C20: a backend operation given a null handle changes no semaphore and no
\* task (the calling task included), semaphore_take then returns false without
\* waiting, and task_create returns a null handle whenever the native call
\* does not report success.
C20_NullHandleNoEffect ==
    [][/\ NullHandleCall =>
            /\ os_sems' = os_sems /\ os_given' = os_given /\ os_tasks' = os_tasks
            /\ os_ret'.op = "semaphore_take" => (~os_ret'.ok /\ ~os_waited')
       /\ (os_ret'.op \in {"task_create", "task_create_pinned"} /\ ~os_ret'.ok)
            => os_ret'.handle = NullHandle]_vars

====
